---- MODULE Spec2Model ----
(***************************************************************************)
(* Monthly dual-momentum rotation backtester (src/main.py).                *)
(*                                                                         *)
(* Time is a line of ticks ("days"); a calendar month is DaysPerMonth      *)
(* ticks.  adjusted_start (start - 12 months) is tick 0.                   *)
(*                                                                         *)
(* Every number the program computes with is a binary floating-point      *)
(* value (numpy.float64 / Python float).  The model keeps the arithmetic   *)
(* of the source operation by operation, each one rounded to nearest,      *)
(* ties to even, in a binary format scaled down from 53 to MantBits        *)
(* significand bits.  A number is held as an integer count of units of     *)
(* 2^-FracBits; 1.0 is the smallest value with a full significand.         *)
(***************************************************************************)
EXTENDS Integers, Sequences, FiniteSets, TLC

(* ------------------------------ bounds --------------------------------- *)
MantBits == 5
DaysPerMonth == 2
MaxMonths == 2
NumAttack == 2
NumSafe == 1
MaxMovers == 2

(* ----------------------- floating-point arithmetic --------------------- *)
FracBits == MantBits - 1
One == 2 ^ FracBits

Abs(x) == IF x < 0 THEN 0 - x ELSE x

\* number of binary digits of a natural number
RECURSIVE BitLen(_)
BitLen(x) == IF x = 0 THEN 0 ELSE 1 + BitLen(x \div 2)

\* the rational n/d (in units), rounded to the nearest representable value,
\* ties to even
RN(n, d) ==
    LET a == Abs(n)
        len == BitLen(a \div d)
        j == IF len > MantBits THEN len - MantBits ELSE 0
        du == d * (2 ^ j)
        q == a \div du
        r == a % du
        m == IF 2 * r > du \/ (2 * r = du /\ q % 2 = 1) THEN q + 1 ELSE q
    IN  IF n < 0 THEN 0 - (m * (2 ^ j)) ELSE m * (2 ^ j)

\* a numeric literal or an int operand converted to float (exact in binary64
\* for the program's literals, rounded here when MantBits is too small)
Lit(n, d) == RN(n * One, d)

fadd(a, b) == RN(a + b, 1)
fsub(a, b) == RN(a - b, 1)
fmul(a, b) == RN(a * b, One)
fdiv(a, b) == RN(a * One, b)
\* a // b for b > 0: the floor of the exact quotient
floor_divide(a, b) == RN((a \div b) * One, 1)

(* ------------------------------ universe ------------------------------- *)
attack_assets == SubSeq(<<"SPY", "EFA", "EEM", "AGG", "QQQ">>, 1, NumAttack)
safe_assets == SubSeq(<<"LQD", "IEF", "SHY">>, 1, NumSafe)
tickers == attack_assets \o safe_assets

Range(s) == {s[k] : k \in 1..Len(s)}
TickerSet == Range(tickers)

(* ------------------------------ calendar ------------------------------- *)
adjusted_start == 0
start_date == adjusted_start + 12 * DaysPerMonth
end == start_date + MaxMonths * DaysPerMonth - 1
\* pd.date_range(start, end, freq=1 month)
dates == [k \in 1..MaxMonths |-> start_date + (k - 1) * DaysPerMonth]
total_steps == Len(dates)
\* the rows a fetch over [adjusted_start, end) can have
Ticks == adjusted_start..(end - 1)

\* Values outside the numbers and dates of a run.  -inf is below every score,
\* so <= and max treat it as Python does; NaT is before every tick.
NaT == -1
NegInf == -1000000000
NaN == -2000000000
KeyError == -2000000001

\* data: the DataFrame of get_stock_data, ticker -> tick -> price or NaN.
\* portfolio: the reference of the live holdings dict; dicts: the dicts that
\* exist, by reference (the live one and the copies the records keep).
\* pc: the position of the loop body: "decide" (line 72), "sell" (84),
\* "buy" (93), "record" (102), "finish" (118), "done"; "KeyError" when an
\* uncaught KeyError has ended the run.
\* strategy: "safety" and "risk" stand for the two labels of lines 79 and 82.
\* arg_ticker, arg_date, closest_date: the arguments and the result of one
\* call of get_closest_date taken alone (ResSpec); a whole run leaves them.
VARIABLES data, initial_cash, buy_commission, sell_commission,
          cash, portfolio, dicts, value_history, trade_history,
          i, momentum_scores, best_attack_asset, best_safe_asset,
          best_asset, strategy, final_value, pc,
          arg_ticker, arg_date, closest_date

vars == <<data, initial_cash, buy_commission, sell_commission,
          cash, portfolio, dicts, value_history, trade_history,
          i, momentum_scores, best_attack_asset, best_safe_asset,
          best_asset, strategy, final_value, pc,
          arg_ticker, arg_date, closest_date>>

resolver_vars == <<arg_ticker, arg_date, closest_date>>

(* --------------------------- as-of resolution -------------------------- *)
\* (mutant) the index of the whole DataFrame: a day counts when any ticker
\* has an observation on it
in_any_index(df, ticker, d) ==
    d \in DOMAIN df[ticker] /\ \E u \in DOMAIN df : df[u][d] # NaN

\* date in data[ticker].dropna().index
in_dropna_index(df, ticker, d) == d \in DOMAIN df[ticker] /\ df[ticker][d] # NaN

\* dates.asof(d): the latest label of the ticker's index that is <= d, NaT
\* when there is none
RECURSIVE asof(_, _, _)
asof(df, ticker, d) ==
    IF d < adjusted_start THEN NaT
    ELSE IF in_dropna_index(df, ticker, d) THEN d
    ELSE asof(df, ticker, d - 1)

get_closest_date(df, ticker, d) ==
    IF ~in_dropna_index(df, ticker, d)
    THEN asof(df, ticker, d)
    ELSE d

\* data.loc[date, ticker]; a label that is not in the index raises KeyError
loc(df, d, ticker) ==
    IF d \in DOMAIN df[ticker] THEN df[ticker][d] ELSE KeyError

\* data.loc[get_closest_date(data, ticker, date), ticker]
price_asof(df, ticker, d) == loc(df, get_closest_date(df, ticker, d), ticker)

(* ------------------------------ momentum ------------------------------- *)
\* the weights of the 1, 3, 6 and 12 month returns, and the percent factor
weight_1m == Lit(12, 1)
weight_3m == Lit(4, 1)
weight_6m == Lit(2, 1)
weight_12m == Lit(1, 1)
percent == Lit(100, 1)

\* lines 48-51
weighted_score(price_now, price_1m, price_3m, price_6m, price_12m) ==
    fadd(fadd(fadd(fmul(fsub(fdiv(price_now, price_1m), One), weight_1m),
                   fmul(fsub(fdiv(price_now, price_3m), One), weight_3m)),
              fmul(fsub(fdiv(price_now, price_6m), One), weight_6m)),
         fmul(fsub(fdiv(price_now, price_12m), One), weight_12m))

\* (mutant) an unavailable observation gives the sentinel instead of raising
score_of_sentinel(df, ticker, d) ==
    LET price_now == price_asof(df, ticker, d)
        price_1m == price_asof(df, ticker, d - 1 * DaysPerMonth)
        price_3m == price_asof(df, ticker, d - 3 * DaysPerMonth)
        price_6m == price_asof(df, ticker, d - 6 * DaysPerMonth)
        price_12m == price_asof(df, ticker, d - 12 * DaysPerMonth)
        prices == {price_now, price_1m, price_3m, price_6m, price_12m}
    IN  IF KeyError \in prices \/ NaN \in prices THEN NegInf
        ELSE weighted_score(price_now, price_1m, price_3m, price_6m, price_12m)

\* the score of one ticker (the body of the loop of calculate_momentum_scores);
\* KeyError when one of the five lookups raises
score_of(df, ticker, d) ==
    LET price_now == price_asof(df, ticker, d)
        price_1m == price_asof(df, ticker, d - 1 * DaysPerMonth)
        price_3m == price_asof(df, ticker, d - 3 * DaysPerMonth)
        price_6m == price_asof(df, ticker, d - 6 * DaysPerMonth)
        price_12m == price_asof(df, ticker, d - 12 * DaysPerMonth)
        prices == {price_now, price_1m, price_3m, price_6m, price_12m}
    IN  IF KeyError \in prices THEN KeyError
        ELSE IF NaN \in prices THEN NegInf
        ELSE weighted_score(price_now, price_1m, price_3m, price_6m, price_12m)

calculate_momentum_scores(df, d) ==
    [ticker \in DOMAIN df |-> score_of(df, ticker, d)]

\* (mutant) a later element replaces the best so far when its key is equal
RECURSIVE max_from_last(_, _, _, _)
max_from_last(seq, key, k, best) ==
    IF k > Len(seq) THEN best
    ELSE max_from_last(seq, key, k + 1,
                       IF key[seq[k]] >= key[best] THEN seq[k] ELSE best)

\* the scan of max(): from the k-th element on, an element replaces the best
\* so far only when its key is greater
RECURSIVE max_from(_, _, _, _)
max_from(seq, key, k, best) ==
    IF k > Len(seq) THEN best
    ELSE max_from(seq, key, k + 1,
                  IF key[seq[k]] > key[best] THEN seq[k] ELSE best)

\* (mutant) the first element, whatever the keys
max_by_first(seq, key) == seq[1]

\* max(seq, key=...)
max_by(seq, key) == max_from(seq, key, 2, seq[1])

\* (mutant) a score of 0 counts as positive
all_attack_negative(scores) ==
    \A k \in 1..Len(attack_assets) : scores[attack_assets[k]] < 0

\* all(momentum_scores[asset] <= 0 for asset in attack_assets)
all_attack_nonpositive(scores) ==
    \A k \in 1..Len(attack_assets) : scores[attack_assets[k]] <= 0

(* ------------------------------- inputs -------------------------------- *)
\* Price shapes a provider series may have: before from the fetch start,
\* after from rebalancing date number turn on.  At most MaxMovers tickers of
\* a data set are not flat.
Flat == [before |-> Lit(3, 1), after |-> Lit(3, 1), turn |-> 1]
Shapes ==
    { Flat,
      [before |-> Lit(3, 2), after |-> Lit(3, 1), turn |-> 1],
      [before |-> Lit(3, 2), after |-> Lit(3, 1), turn |-> 2],
      [before |-> Lit(3, 1), after |-> Lit(3, 2), turn |-> 2] }

shape_price(sh, d) ==
    IF sh.turn <= MaxMonths /\ d >= dates[sh.turn] THEN sh.after ELSE sh.before

\* Days without any observation: none, the first day of the fetch, or one
\* rebalancing date.
ClosedChoices == {{}} \cup {{adjusted_start}} \cup {{dates[k]} : k \in 1..MaxMonths}
\* At most one ticker listed only after the fetch start: the first of a class.
LateChoices == {"none", attack_assets[1], safe_assets[1]}
ListingTick == adjusted_start + 1

InitialCashSet == {Lit(2, 1), Lit(12, 1)}
CommissionSet == {Lit(0, 1), Lit(3, 8)}

\* get_stock_data: the DataFrame of the fetched series over [adjusted_start, end)
get_stock_data(shape, closed, late) ==
    [t \in TickerSet |->
        [d \in Ticks |->
            IF d \in closed \/ (t = late /\ d < ListingTick)
            THEN NaN
            ELSE shape_price(shape[t], d)]]

EmptyPortfolio == [t \in TickerSet |-> 0]

Init ==
    /\ \E shape \in [TickerSet -> Shapes], closed \in ClosedChoices, late \in LateChoices :
          /\ Cardinality({t \in TickerSet : shape[t] # Flat}) <= MaxMovers
          /\ closed = {} \/ late = "none"
          /\ data = get_stock_data(shape, closed, late)
    /\ initial_cash \in InitialCashSet
    /\ buy_commission \in CommissionSet
    /\ sell_commission \in CommissionSet
    /\ cash = initial_cash
    /\ portfolio = 1
    /\ dicts = <<EmptyPortfolio>>
    /\ value_history = <<>>
    /\ trade_history = <<>>
    /\ i = 0
    /\ momentum_scores = EmptyPortfolio
    /\ best_attack_asset = ""
    /\ best_safe_asset = ""
    /\ best_asset = ""
    /\ strategy = ""
    /\ final_value = 0
    /\ pc = "decide"
    /\ arg_ticker = "" /\ arg_date = NaT /\ closest_date = NaT

\* the dict the name portfolio refers to
Holdings == dicts[portfolio]
\* (mutant) every step takes the first rebalancing date
date_first == dates[1]

\* the loop variable date
date == dates[i + 1]

(* ------------------------------ the loop ------------------------------- *)
\* (mutant) the risk branch takes the best safety asset
Select_safe_target(scores) ==
    /\ best_attack_asset' = max_by(attack_assets, scores)
    /\ best_safe_asset' = max_by(safe_assets, scores)
    /\ IF all_attack_nonpositive(scores)
       THEN best_asset' = best_safe_asset' /\ strategy' = "safety"
       ELSE best_asset' = best_safe_asset' /\ strategy' = "risk"

\* lines 74-82: the best of each class and the regime, from the scores
Select(scores) ==
    /\ best_attack_asset' = max_by(attack_assets, scores)
    /\ best_safe_asset' = max_by(safe_assets, scores)
    /\ IF all_attack_nonpositive(scores)
       THEN best_asset' = best_safe_asset' /\ strategy' = "safety"
       ELSE best_asset' = best_attack_asset' /\ strategy' = "risk"

\* lines 72-82: scores, the best of each class, the regime; a lookup that
\* raises ends the run
Decide ==
    /\ pc = "decide"
    /\ \E scores \in {calculate_momentum_scores(data, date)} :
           IF \E t \in TickerSet : scores[t] = KeyError
           THEN /\ pc' = "KeyError"
                /\ UNCHANGED <<momentum_scores, best_attack_asset, best_safe_asset,
                               best_asset, strategy>>
           ELSE /\ momentum_scores' = scores
                /\ Select(scores)
                /\ pc' = "sell"
    /\ UNCHANGED resolver_vars
    /\ UNCHANGED <<data, initial_cash, buy_commission, sell_commission, cash,
                   portfolio, dicts, value_history, trade_history, i, final_value>>

\* (mutant) a holding of the step's target is kept instead of sold and re-bought
RECURSIVE sell_from_hold(_, _, _)
sell_from_hold(k, c, pf) ==
    IF k > Len(tickers) THEN [cash |-> c, portfolio |-> pf]
    ELSE LET ticker == tickers[k]
             unit_price == price_asof(data, ticker, date)
             total_price == fmul(fmul(pf[ticker], unit_price), fsub(One, sell_commission))
         IN  IF pf[ticker] > 0 /\ ticker # best_asset
             THEN sell_from_hold(k + 1, fadd(c, total_price), [pf EXCEPT ![ticker] = 0])
             ELSE sell_from_hold(k + 1, c, pf)

\* (mutant) the selling loop credits the cash and keeps the holding
RECURSIVE sell_from_keep(_, _, _)
sell_from_keep(k, c, pf) ==
    IF k > Len(tickers) THEN [cash |-> c, portfolio |-> pf]
    ELSE LET ticker == tickers[k]
             unit_price == price_asof(data, ticker, date)
             total_price == fmul(fmul(pf[ticker], unit_price), fsub(One, sell_commission))
         IN  IF pf[ticker] > 0
             THEN sell_from_keep(k + 1, fadd(c, total_price), pf)
             ELSE sell_from_keep(k + 1, c, pf)

\* one pass of the selling loop over portfolio, from the k-th ticker on
RECURSIVE sell_from(_, _, _)
sell_from(k, c, pf) ==
    IF k > Len(tickers) THEN [cash |-> c, portfolio |-> pf]
    ELSE LET ticker == tickers[k]
             unit_price == price_asof(data, ticker, date)
             total_price == fmul(fmul(pf[ticker], unit_price), fsub(One, sell_commission))
         IN  IF pf[ticker] > 0
             THEN sell_from(k + 1, fadd(c, total_price), [pf EXCEPT ![ticker] = 0])
             ELSE sell_from(k + 1, c, pf)

\* lines 84-91
Liquidate ==
    /\ pc = "sell"
    /\ IF \E t \in TickerSet : Holdings[t] > 0 /\ price_asof(data, t, date) = KeyError
       THEN pc' = "KeyError" /\ UNCHANGED <<cash, dicts>>
       ELSE LET sold == sell_from(1, cash, Holdings)
            IN  /\ cash' = sold.cash
                /\ dicts' = [dicts EXCEPT ![portfolio] = sold.portfolio]
                /\ pc' = "buy"
    /\ UNCHANGED resolver_vars
    /\ UNCHANGED <<data, initial_cash, buy_commission, sell_commission, portfolio,
                   value_history, trade_history, i, momentum_scores,
                   best_attack_asset, best_safe_asset, best_asset, strategy,
                   final_value>>

\* shares_to_buy = cash // (unit_price * (1 + buy_commission))
shares_to_buy(c, unit_price) ==
    floor_divide(c, fmul(unit_price, fadd(One, buy_commission)))

\* total_price = shares_to_buy * unit_price * (1 + buy_commission)
buy_total_price(shares, unit_price) ==
    fmul(fmul(shares, unit_price), fadd(One, buy_commission))

\* lines 93-100
Acquire ==
    /\ pc = "buy"
    /\ LET unit_price == price_asof(data, best_asset, date)
           shares == shares_to_buy(cash, unit_price)
       IN  IF unit_price = KeyError
           THEN pc' = "KeyError" /\ UNCHANGED <<cash, dicts>>
           ELSE /\ dicts' = [dicts EXCEPT ![portfolio][best_asset] = fadd(@, shares)]
                /\ cash' = fsub(cash, buy_total_price(shares, unit_price))
                /\ pc' = "record"
    /\ UNCHANGED resolver_vars
    /\ UNCHANGED <<data, initial_cash, buy_commission, sell_commission, portfolio,
                   value_history, trade_history, i, momentum_scores,
                   best_attack_asset, best_safe_asset, best_asset, strategy,
                   final_value>>

\* sum(pf[ticker] * as-of price for ticker in portfolio), from the k-th on
RECURSIVE sum_from(_, _, _, _)
sum_from(k, acc, pf, d) ==
    IF k > Len(tickers) THEN acc
    ELSE sum_from(k + 1, fadd(acc, fmul(pf[tickers[k]], price_asof(data, tickers[k], d))),
                  pf, d)

\* (mutant) the holdings are left out of the total
total_value_cash_only(c, pf, d) == c

\* line 102
total_value_of(c, pf, d) == fadd(c, sum_from(1, 0, pf, d))

\* (mutant) the record keeps the live dict itself
copy_ref_alias(ref) == ref

\* portfolio.copy(): the reference of the new dict
copy_ref(ref) == Len(dicts) + 1

\* lines 102-113 and the loop's advance
Record ==
    /\ pc = "record"
    /\ LET total_value == total_value_of(cash, Holdings, date)
           snapshot == copy_ref(portfolio)
       IN  /\ value_history' = Append(value_history, total_value)
           /\ dicts' = IF snapshot > Len(dicts) THEN Append(dicts, Holdings) ELSE dicts
           /\ trade_history' = Append(trade_history,
                 [date |-> date,
                  strategy |-> strategy,
                  best_asset |-> best_asset,
                  cash |-> cash,
                  total_value |-> total_value,
                  current_return |->
                      fmul(fsub(fdiv(total_value, initial_cash), One), percent),
                  portfolio |-> snapshot])
    /\ i' = i + 1
    /\ pc' = IF i + 1 < total_steps THEN "decide" ELSE "finish"
    /\ UNCHANGED resolver_vars
    /\ UNCHANGED <<data, initial_cash, buy_commission, sell_commission, cash,
                   portfolio, momentum_scores, best_attack_asset, best_safe_asset,
                   best_asset, strategy, final_value>>

\* line 118
Finish ==
    /\ pc = "finish"
    /\ final_value' = value_history[Len(value_history)]
    /\ pc' = "done"
    /\ UNCHANGED resolver_vars
    /\ UNCHANGED <<data, initial_cash, buy_commission, sell_commission, cash,
                   portfolio, dicts, value_history, trade_history, i,
                   momentum_scores, best_attack_asset, best_safe_asset,
                   best_asset, strategy>>

Next == Decide \/ Liquidate \/ Acquire \/ Record \/ Finish

Spec == Init /\ [][Next]_vars

(* ------------------- the selection as a pure function ------------------ *)
\* lines 74-82 applied to any scores, the sentinel among them
ScoreChoices == {NegInf, Lit(-1, 1), 0, Lit(1, 2), Lit(5, 1)}

SelInit ==
    /\ momentum_scores \in [TickerSet -> ScoreChoices]
    /\ data = get_stock_data([t \in TickerSet |-> Flat], {}, "none")
    /\ initial_cash = Lit(12, 1)
    /\ buy_commission = 0
    /\ sell_commission = 0
    /\ cash = initial_cash
    /\ portfolio = 1
    /\ dicts = <<EmptyPortfolio>>
    /\ value_history = <<>>
    /\ trade_history = <<>>
    /\ i = 0
    /\ best_attack_asset = ""
    /\ best_safe_asset = ""
    /\ best_asset = ""
    /\ strategy = ""
    /\ final_value = 0
    /\ pc = "select"
    /\ arg_ticker = "" /\ arg_date = NaT /\ closest_date = NaT

SelectOnly ==
    /\ pc = "select"
    /\ Select(momentum_scores)
    /\ pc' = "selected"
    /\ UNCHANGED resolver_vars
    /\ UNCHANGED <<data, initial_cash, buy_commission, sell_commission, cash,
                   portfolio, dicts, value_history, trade_history, i,
                   momentum_scores, final_value>>

SelSpec == SelInit /\ [][SelectOnly]_vars

(* ------------------ the resolver as a pure function -------------------- *)
\* Days on which one ticker has no observation, around the nominal start
\* date: none, that day, that day and the one before, every day up to it.
GapChoices ==
    { {}, {start_date}, {start_date - 1, start_date}, adjusted_start..start_date }
\* the dates asked for
TargetChoices == {start_date - 1, start_date, start_date + 1}

\* a DataFrame whose columns have gaps of their own
gapped_data(gaps) ==
    [t \in TickerSet |->
        [d \in Ticks |-> IF d \in gaps[t] THEN NaN ELSE Flat.before]]

ResInit ==
    /\ \E gaps \in [TickerSet -> GapChoices] : data = gapped_data(gaps)
    /\ arg_ticker \in TickerSet
    /\ arg_date \in TargetChoices
    /\ closest_date = NaT
    /\ initial_cash = Lit(12, 1)
    /\ buy_commission = 0
    /\ sell_commission = 0
    /\ cash = initial_cash
    /\ portfolio = 1
    /\ dicts = <<EmptyPortfolio>>
    /\ value_history = <<>>
    /\ trade_history = <<>>
    /\ i = 0
    /\ momentum_scores = EmptyPortfolio
    /\ best_attack_asset = ""
    /\ best_safe_asset = ""
    /\ best_asset = ""
    /\ strategy = ""
    /\ final_value = 0
    /\ pc = "resolve"

\* one call of get_closest_date(data, ticker, date)
Resolve ==
    /\ pc = "resolve"
    /\ closest_date' = get_closest_date(data, arg_ticker, arg_date)
    /\ pc' = "resolved"
    /\ UNCHANGED <<arg_ticker, arg_date>>
    /\ UNCHANGED <<data, initial_cash, buy_commission, sell_commission, cash,
                   portfolio, dicts, value_history, trade_history, i,
                   momentum_scores, best_attack_asset, best_safe_asset,
                   best_asset, strategy, final_value>>

ResSpec == ResInit /\ [][Resolve]_vars

(* ------------------------------ properties ----------------------------- *)
\* the phases of a step, by the position the loop has reached
AfterLiquidation == pc = "buy"
AfterAcquisition == pc = "record"

\* C1: at every step cash is >= 0 right after the liquidation phase and right
\* after the acquisition phase: a buy never spends more than the cash there is.
C1_CashNeverNegative ==
    (AfterLiquidation \/ AfterAcquisition) => cash >= 0

\* the tickers holding a positive quantity in a dict
Held(pf) == {t \in TickerSet : pf[t] > 0}
\* the holdings snapshot a record refers to
SnapshotOf(r) == dicts[r.portfolio]
\* the step has computed its decision
Decided == pc \in {"sell", "buy", "record"}

\* C2: at most one ticker of the universe has a positive holding, after the
\* acquisition of every step, between steps and in every recorded snapshot.
C2_AtMostOneHolding ==
    /\ Cardinality(Held(Holdings)) <= 1
    /\ \A k \in 1..Len(trade_history) :
           Cardinality(Held(SnapshotOf(trade_history[k]))) <= 1

\* the second step has bought a ticker other than the one the first step
\* bought and recorded
C2_Witness ==
    /\ AfterAcquisition /\ i = 1
    /\ Holdings[best_asset] > 0
    /\ trade_history[1].best_asset # best_asset
    /\ SnapshotOf(trade_history[1])[trade_history[1].best_asset] > 0

\* C3: the regime is "safety" and the target the best safety asset exactly
\* when every risk asset's score is <= 0 (0 counts as non-positive); otherwise
\* the regime is "risk" and the target the best risk asset.  The safety
\* assets' scores play no part.
C3_RegimeByRiskScores ==
    Decided =>
        IF \A a \in Range(attack_assets) : momentum_scores[a] <= 0
        THEN /\ strategy = "safety"
             /\ best_asset \in Range(safe_assets)
             /\ \A x \in Range(safe_assets) :
                    momentum_scores[x] <= momentum_scores[best_asset]
        ELSE /\ strategy = "risk"
             /\ best_asset \in Range(attack_assets)
             /\ \A a \in Range(attack_assets) :
                    momentum_scores[a] <= momentum_scores[best_asset]

\* a risk score of exactly 0, none positive, and a safety asset that scores
\* below 0: the regime is still safety
C3_Witness ==
    /\ Decided /\ strategy = "safety"
    /\ \E a \in Range(attack_assets) : momentum_scores[a] = 0
    /\ momentum_scores[best_asset] < 0

\* one of the five observations of a ticker is unavailable at date d
Offsets == {0, 1, 3, 6, 12}
Unavailable(t, d) ==
    \E m \in Offsets : get_closest_date(data, t, d - m * DaysPerMonth) = NaT

\* C4: a ticker with an unavailable observation gets the sentinel score and
\* the run continues with the other tickers.
C4_MissingGivesSentinel ==
    \A t \in TickerSet :
        (i < total_steps /\ pc # "decide" /\ Unavailable(t, date))
            => (pc # "KeyError" /\ momentum_scores[t] = NegInf)

\* C5: a ticker with the sentinel score is never the best of its class unless
\* every ticker of that class has the sentinel score.
C5_SentinelNeverBest ==
    pc = "selected" =>
        /\ momentum_scores[best_attack_asset] = NegInf
              => \A a \in Range(attack_assets) : momentum_scores[a] = NegInf
        /\ momentum_scores[best_safe_asset] = NegInf
              => \A x \in Range(safe_assets) : momentum_scores[x] = NegInf

\* the first-listed risk asset has the sentinel score, a later one has not,
\* and the later one is selected
C5_Witness ==
    /\ pc = "selected"
    /\ momentum_scores[attack_assets[1]] = NegInf
    /\ momentum_scores[best_attack_asset] # NegInf
    /\ momentum_scores[best_safe_asset] = NegInf

RECURSIVE SumHeld(_, _, _)
SumHeld(S, pf, d) ==
    IF S = {} THEN 0
    ELSE LET t == CHOOSE x \in S : TRUE
         IN  fadd(fmul(pf[t], price_asof(data, t, d)), SumHeld(S \ {t}, pf, d))
Recomputed(r) == fadd(r.cash, SumHeld(TickerSet, SnapshotOf(r), r.date))

\* C7: every record's stored total value equals the value recomputed from the
\* record's cash and holdings snapshot at the record's date.
C7_TotalValueRoundTrip ==
    \A k \in 1..Len(trade_history) :
        trade_history[k].total_value = Recomputed(trade_history[k])

\* the last record of a finished run holds cash and a position worth more
\* than the cash
C7_Witness ==
    /\ pc = "done"
    /\ LET r == trade_history[Len(trade_history)]
       IN  /\ r.cash > 0
           /\ SnapshotOf(r)[r.best_asset] > 0
           /\ r.total_value > r.cash
           /\ final_value = r.total_value

\* C8: the history has one record per completed step, and no step changes a
\* record appended earlier or the holdings snapshot it refers to.
C8_HistoryAppendOnly ==
    /\ [](Len(trade_history) = i /\ Len(value_history) = i)
    /\ [][/\ Len(trade_history') >= Len(trade_history)
           /\ \A k \in 1..Len(trade_history) :
                  /\ trade_history'[k] = trade_history[k]
                  /\ SnapshotOf(trade_history[k])' = SnapshotOf(trade_history[k])]_vars

\* a later step has changed the live holdings after a record was appended
C8_Witness ==
    /\ AfterAcquisition /\ i = 1
    /\ Len(trade_history) = 1
    /\ Holdings # SnapshotOf(trade_history[1])

\* every ticker has the same observation days: the gaps of the fetched
\* range are non-trading days only
SameTradingDays ==
    \A t, u \in TickerSet : \A d \in Ticks : (data[t][d] = NaN) <=> (data[u][d] = NaN)

\* C9: with the series fetched from 12 months before the start, the first
\* step resolves all five observations of every ticker, whatever the
\* non-trading days of the range.
C9_FirstStepComputable ==
    (SameTradingDays /\ i = 0 /\ pc # "decide") => pc # "KeyError"

\* C11: the liquidation of every step sells every ticker held with a positive
\* quantity q at its as-of price p of the current date, credits the cash with
\* q x p x (1 - sell_commission) and sets the holding to zero, also when the
\* ticker is the step's target: a "hold" is unwound and re-bought.
C11_LiquidationUnconditional ==
    [][(pc = "sell" /\ pc' = "buy") =>
          /\ \A t \in TickerSet :
                 Holdings'[t] = IF Holdings[t] > 0 THEN 0 ELSE Holdings[t]
          /\ IF Held(Holdings) = {}
             THEN cash' = cash
             ELSE \E t \in Held(Holdings) :
                      /\ Held(Holdings) = {t}
                      /\ cash' = fadd(cash,
                                     fmul(fmul(Holdings[t], price_asof(data, t, date)),
                                          fsub(One, sell_commission)))]_vars

\* the second step's target is the ticker the first step bought: it has been
\* sold all the same, against a sell commission
C11_Witness ==
    /\ AfterLiquidation /\ i = 1
    /\ trade_history[1].best_asset = best_asset
    /\ SnapshotOf(trade_history[1])[best_asset] > 0
    /\ Holdings[best_asset] = 0
    /\ sell_commission > 0
    /\ cash > trade_history[1].cash

\* C12: the acquisition buys the largest whole quantity q whose cost
\* q x p x (1 + buy_commission) is <= the cash c left by the liquidation (one
\* unit more would cost more than c), debits the cash by exactly that cost and
\* makes q the target's holding; when c does not pay for one unit, q = 0 and
\* the cash is unchanged.
C12_MaximalWholeQuantity ==
    [][(pc = "buy" /\ pc' = "record") =>
          LET c == cash
              p == price_asof(data, best_asset, date)
              q == Holdings'[best_asset]
          IN  /\ q >= 0 /\ q % One = 0
              /\ buy_total_price(q, p) <= c
              /\ buy_total_price(q + One, p) > c
              /\ cash' = fsub(c, buy_total_price(q, p))
              /\ (buy_total_price(One, p) > c) => (q = 0 /\ cash' = c)]_vars

\* the days on which a ticker has an observation
Observed(t) == {d \in Ticks : data[t][d] # NaN}

\* C13: get_closest_date returns the target itself when the ticker has an
\* observation on it, and otherwise the latest earlier day on which that
\* ticker has one; days on which only other tickers have prices do not count,
\* and the price at the resolved day is not missing.
C13_ClosestDate ==
    pc = "resolved" =>
        /\ arg_date \in Observed(arg_ticker) => closest_date = arg_date
        /\ (arg_date \notin Observed(arg_ticker)
               /\ \E x \in Observed(arg_ticker) : x < arg_date)
              => /\ closest_date \in Observed(arg_ticker)
                 /\ closest_date < arg_date
                 /\ \A x \in Observed(arg_ticker) : x < arg_date => x <= closest_date
                 /\ loc(data, closest_date, arg_ticker) \notin {NaN, KeyError}

\* the ticker has no observation on the target although another ticker has
\* one: the two tickers resolve the same target to different days
C13_Witness ==
    /\ pc = "resolved"
    /\ arg_date \notin Observed(arg_ticker)
    /\ closest_date # NaT /\ closest_date < arg_date
    /\ \E u \in TickerSet :
           /\ arg_date \in Observed(u)
           /\ get_closest_date(data, u, arg_date) = arg_date

\* the position of a ticker in a list
IndexIn(seq, t) == CHOOSE k \in 1..Len(seq) : seq[k] = t
\* t has the largest score of the list and is the first listed to have it
FirstMax(seq, t) ==
    /\ t \in Range(seq)
    /\ \A x \in Range(seq) : momentum_scores[x] <= momentum_scores[t]
    /\ \A k \in 1..(IndexIn(seq, t) - 1) : momentum_scores[seq[k]] < momentum_scores[t]

\* C14: the best risk asset is a risk ticker with the largest score of the
\* risk list, the first listed among those that share it; the best safety
\* asset likewise over the safety list.
C14_FirstListedMaximum ==
    pc = "selected" =>
        /\ FirstMax(attack_assets, best_attack_asset)
        /\ FirstMax(safe_assets, best_safe_asset)

\* the two first-listed risk assets share the largest score, which is not
\* the sentinel, and the first one is selected
C14_Witness ==
    /\ pc = "selected"
    /\ momentum_scores[attack_assets[1]] = momentum_scores[attack_assets[2]]
    /\ momentum_scores[attack_assets[1]] > 0
    /\ \A x \in Range(attack_assets) :
           momentum_scores[x] <= momentum_scores[attack_assets[1]]
    /\ best_attack_asset = attack_assets[1]

\* the step has not touched the ledger yet
BeforeLiquidation == pc \in {"decide", "sell"}

\* C15: the steps run one after the other, one per rebalancing date: the
\* k-th record has the date k - 1 months after the start date, no record is
\* later than the end date, a finished run has a record for every monthly
\* date up to the end, and each step starts from the cash and holdings the
\* step before left and recorded, the first from the initial cash and no
\* holdings.
C15_SequentialMonthlySteps ==
    /\ \A k \in 1..Len(trade_history) :
           /\ trade_history[k].date = start_date + (k - 1) * DaysPerMonth
           /\ trade_history[k].date <= end
    /\ pc = "done" =>
           trade_history[Len(trade_history)].date + DaysPerMonth > end
    /\ BeforeLiquidation =>
           /\ Len(trade_history) = i
           /\ IF i = 0
              THEN cash = initial_cash /\ Holdings = EmptyPortfolio
              ELSE /\ cash = trade_history[i].cash
                   /\ Holdings = SnapshotOf(trade_history[i])

\* the second step starts, one month after the first, from the position and
\* the cash the first step left
C15_Witness ==
    /\ pc = "sell" /\ i = 1
    /\ trade_history[1].date = start_date
    /\ date = start_date + DaysPerMonth
    /\ Held(Holdings) # {}
    /\ cash # initial_cash

\* the ledger the k-th step started from: the one the record before it kept,
\* or the initial one
PreStepCash(k) == IF k = 1 THEN initial_cash ELSE trade_history[k - 1].cash
PreStepHoldings(k) ==
    IF k = 1 THEN EmptyPortfolio ELSE SnapshotOf(trade_history[k - 1])
\* the amounts of the k-th step at its date's as-of prices: the holdings
\* unwound, the holdings bought, the value before the step
Liquidated(k) == SumHeld(TickerSet, PreStepHoldings(k), trade_history[k].date)
Purchased(k) == SumHeld(TickerSet, SnapshotOf(trade_history[k]), trade_history[k].date)
PreStepValue(k) == fadd(PreStepCash(k), Liquidated(k))

\* C16: the total value a step records is the value before the step (cash
\* plus holdings at the step's as-of prices) minus the sell commission on the
\* amount liquidated minus the buy commission on the amount purchased; so it
\* is <= the value before the step, equal to it when both commissions are 0,
\* and smaller when a positive holding is unwound at a sell commission > 0.
C16_NoValueCreated ==
    \A k \in 1..Len(trade_history) :
        LET total_value == trade_history[k].total_value
        IN  /\ total_value =
                   fsub(fsub(PreStepValue(k), fmul(Liquidated(k), sell_commission)),
                        fmul(Purchased(k), buy_commission))
            /\ total_value <= PreStepValue(k)
            /\ (sell_commission = 0 /\ buy_commission = 0)
                  => total_value = PreStepValue(k)
            /\ (sell_commission > 0 /\ Held(PreStepHoldings(k)) # {})
                  => total_value < PreStepValue(k)

\* the scores of the step that appended the last record are still the
\* current ones
ScoresOfLastRecord ==
    Len(trade_history) >= 1 /\ pc \in {"decide", "finish", "done"}

\* C17: in every record, a ticker with a positive quantity in the holdings
\* snapshot is the record's chosen ticker; the chosen ticker is a risk asset
\* when the record's regime is "risk" and a safety asset when it is "safety";
\* and in a "risk" record the chosen ticker's momentum score, as the record's
\* step computed it, is > 0.
C17_RecordConsistent ==
    /\ \A k \in 1..Len(trade_history) :
           LET r == trade_history[k]
           IN  /\ Held(SnapshotOf(r)) \subseteq {r.best_asset}
               /\ r.strategy \in {"risk", "safety"}
               /\ r.strategy = "risk" => r.best_asset \in Range(attack_assets)
               /\ r.strategy = "safety" => r.best_asset \in Range(safe_assets)
    /\ ScoresOfLastRecord =>
           LET r == trade_history[Len(trade_history)]
           IN  r.strategy = "risk" => momentum_scores[r.best_asset] > 0

\* a "safety" record and a "risk" record, each holding its chosen ticker
C17_Witness ==
    /\ Len(trade_history) = 2 /\ ScoresOfLastRecord
    /\ trade_history[1].strategy = "safety"
    /\ trade_history[2].strategy = "risk"
    /\ \A k \in 1..2 :
           SnapshotOf(trade_history[k])[trade_history[k].best_asset] > 0
    /\ momentum_scores[trade_history[2].best_asset] > 0

====
